---- MODULE Spec2Model ----
(***************************************************************************)
(* Model of gatherr (src/src/lib.rs): Gatherr::from_iter and its two thin  *)
(* wrappers IterExt::gatherr and gatherr, at the granularity of one poll   *)
(* of the source iterator per step.  Both collections are Vec-like: their  *)
(* collect() polls the adapter until its first None and then stops.        *)
(***************************************************************************)
EXTENDS Integers, Sequences, FiniteSets

\* ---- bounds ----
MaxLen == 4
NumOk == 2
NumErr == 2

\* ---- data ----
OkVals == 1..NumOk
ErrVals == 1..NumErr

Ok(v) == [tag |-> "Ok", val |-> v]
Err(v) == [tag |-> "Err", val |-> v]

Outcomes == {Ok(v) : v \in OkVals} \cup {Err(v) : v \in ErrVals}

Inputs == UNION {[1..n -> Outcomes] : n \in 0..MaxLen}

\* Option<T> is a sequence of length 0 (None) or 1 (Some)
None == <<>>
Some(x) == <<x>>

\* the newtype: a one-field tuple struct
Gatherr(r) == <<r>>

\* variant of err: the closure keeps the value of either variant
err_any(r) == Some(r.val)

\* Result::err
err(r) == IF r.tag = "Err" THEN Some(r.val) ELSE None

\* Iterator::next of the source, as an Option of the item
next(it) == IF it = <<>> THEN None ELSE Some(Head(it))

Entries == {"from_iter", "IterExt_gatherr", "gatherr"}

\* the caller tries the entry points one after the other, in this order
Order == <<"from_iter", "IterExt_gatherr", "gatherr">>

VARIABLES
    input,      \* the sequence first handed to the entry points
    arg,        \* the sequence handed to the calls of the current round
    round,      \* 1: calls on input, 2: calls on the re-wrapped failures
    prev,       \* the failure collection that round 2 re-aggregates
    rets,       \* entry point -> Option of the value it returned this round
    call,       \* entry point being executed
    pc,         \* position inside the call
    iter,       \* the source iterator: elements not yet yielded
    pulled,     \* log: elements the source has yielded, in order
    ends,       \* log: number of times the source has answered None
    first_err,  \* Option<B>
    ok,         \* buffer of the success collection
    okLive,     \* the success collection exists (not dropped, not moved)
    errs,       \* buffer of the failure collection
    result,     \* Option of the Result built at lines 34-41
    inner       \* Option of the Gatherr value a wrapper got back

vars == <<input, arg, round, prev, rets, call, pc, iter, pulled, ends,
          first_err, ok, okLive, errs, result, inner>>

harness == <<input, arg, round, prev>>

Init ==
    /\ input \in Inputs
    /\ arg = input
    /\ round = 1
    /\ prev = <<>>
    /\ rets = [e \in Entries |-> None]
    /\ call = "from_iter"
    /\ pc = "idle"
    /\ iter = <<>>
    /\ pulled = <<>>
    /\ ends = 0
    /\ first_err = None
    /\ ok = <<>>
    /\ okLive = FALSE
    /\ errs = <<>>
    /\ result = None
    /\ inner = None

\* a caller invokes entry point e on arg
Start(e) ==
    /\ pc = "idle"
    /\ rets[e] = None
    /\ \A k \in 1..Len(Order) : Order[k] = e =>
           \A j \in 1..(k - 1) : rets[Order[j]] # None
    /\ call' = e
    /\ pc' = IF e = "from_iter" THEN "from_iter" ELSE "entry"
    /\ iter' = arg
    /\ pulled' = <<>>
    /\ ends' = 0
    /\ first_err' = None
    /\ ok' = <<>>
    /\ okLive' = FALSE
    /\ errs' = <<>>
    /\ result' = None
    /\ inner' = None
    /\ UNCHANGED <<harness, rets>>

\* IterExt::gatherr: self.collect()
IterExt_gatherr_collect ==
    /\ pc = "entry"
    /\ call = "IterExt_gatherr"
    /\ pc' = "from_iter"
    /\ UNCHANGED <<harness, rets, call, iter, pulled, ends, first_err, ok,
                   okLive, errs, result, inner>>

\* gatherr: iter.into_iter().collect()
gatherr_collect ==
    /\ pc = "entry"
    /\ call = "gatherr"
    /\ pc' = "from_iter"
    /\ UNCHANGED <<harness, rets, call, iter, pulled, ends, first_err, ok,
                   okLive, errs, result, inner>>

\* let mut iter = iter.into_iter(); let mut first_err = None;
\* and the collect() of line 33 starts with an empty collection
from_iter_begin ==
    /\ pc = "from_iter"
    /\ first_err' = None
    /\ ok' = <<>>
    /\ okLive' = TRUE
    /\ pc' = "scan"
    /\ UNCHANGED <<harness, rets, call, iter, pulled, ends, errs, result, inner>>

\* variant of scan_next: the closure ends the scan on a failure without
\* recording it
scan_next_unrecorded ==
    /\ pc = "scan"
    /\ LET i == next(iter) IN
       IF i = None
       THEN /\ ends' = ends + 1
            /\ pc' = "if"
            /\ UNCHANGED <<iter, pulled, ok, first_err>>
       ELSE /\ iter' = Tail(iter)
            /\ pulled' = Append(pulled, i[1])
            /\ ends' = ends
            /\ IF i[1].tag = "Ok"
               THEN /\ ok' = Append(ok, i[1].val)
                    /\ pc' = "scan"
                    /\ UNCHANGED first_err
               ELSE /\ pc' = "if"
                    /\ UNCHANGED <<ok, first_err>>
    /\ UNCHANGED <<harness, rets, call, okLive, errs, result, inner>>

\* variant of scan_next: the collection inserts each success at the front
scan_next_front ==
    /\ pc = "scan"
    /\ LET i == next(iter) IN
       IF i = None
       THEN /\ ends' = ends + 1
            /\ pc' = "if"
            /\ UNCHANGED <<iter, pulled, ok, first_err>>
       ELSE /\ iter' = Tail(iter)
            /\ pulled' = Append(pulled, i[1])
            /\ ends' = ends
            /\ IF i[1].tag = "Ok"
               THEN /\ ok' = <<i[1].val>> \o ok
                    /\ pc' = "scan"
                    /\ UNCHANGED first_err
               ELSE /\ first_err' = Some(i[1].val)
                    /\ pc' = "if"
                    /\ UNCHANGED ok
    /\ UNCHANGED <<harness, rets, call, okLive, errs, result, inner>>

\* one next() of (&mut iter).scan(..) driven by collect()
scan_next ==
    /\ pc = "scan"
    /\ LET i == next(iter) IN
       IF i = None
       THEN /\ ends' = ends + 1
            /\ pc' = "if"
            /\ UNCHANGED <<iter, pulled, ok, first_err>>
       ELSE /\ iter' = Tail(iter)
            /\ pulled' = Append(pulled, i[1])
            /\ ends' = ends
            /\ IF i[1].tag = "Ok"
               THEN /\ ok' = Append(ok, i[1].val)
                    /\ pc' = "scan"
                    /\ UNCHANGED first_err
               ELSE /\ first_err' = Some(i[1].val)
                    /\ pc' = "if"
                    /\ UNCHANGED ok
    /\ UNCHANGED <<harness, rets, call, okLive, errs, result, inner>>

\* variant of if_first_err: the failure branch iterates the input afresh
if_first_err_restart ==
    /\ pc = "if"
    /\ first_err # None
    /\ ok' = <<>>
    /\ okLive' = FALSE
    /\ iter' = arg
    /\ pc' = "once"
    /\ UNCHANGED <<harness, rets, call, pulled, ends, first_err, errs,
                   result, inner>>

\* variant of if_first_err: ok is kept until the function returns
if_first_err_keep ==
    /\ pc = "if"
    /\ first_err # None
    /\ pc' = "once"
    /\ UNCHANGED <<harness, rets, call, iter, pulled, ends, first_err, ok,
                   okLive, errs, result, inner>>

\* if let Some(first_err) = first_err { drop(ok); ..
if_first_err ==
    /\ pc = "if"
    /\ first_err # None
    /\ ok' = <<>>
    /\ okLive' = FALSE
    /\ pc' = "once"
    /\ UNCHANGED <<harness, rets, call, iter, pulled, ends, first_err, errs,
                   result, inner>>

\* variant of else_ok: the remainder of iter is drained in this branch too
else_ok_drain ==
    /\ pc = "if"
    /\ first_err = None
    /\ ends' = IF iter = <<>> THEN ends + 1 ELSE ends
    /\ result' = Some(Ok(ok))
    /\ ok' = <<>>
    /\ okLive' = FALSE
    /\ pc' = "wrap"
    /\ UNCHANGED <<harness, rets, call, iter, pulled, first_err, errs, inner>>

\* } else { Ok(ok) }
else_ok ==
    /\ pc = "if"
    /\ first_err = None
    /\ result' = Some(Ok(ok))
    /\ ok' = <<>>
    /\ okLive' = FALSE
    /\ pc' = "wrap"
    /\ UNCHANGED <<harness, rets, call, iter, pulled, ends, first_err, errs, inner>>

\* variant of chain_once: the first failure is not chained in front
chain_once_missing ==
    /\ pc = "once"
    /\ errs' = errs
    /\ pc' = "filter_map"
    /\ UNCHANGED <<harness, rets, call, iter, pulled, ends, first_err, ok,
                   okLive, result, inner>>

\* std::iter::once(first_err): the chain yields the first failure first
chain_once ==
    /\ pc = "once"
    /\ errs' = Append(errs, first_err[1])
    /\ pc' = "filter_map"
    /\ UNCHANGED <<harness, rets, call, iter, pulled, ends, first_err, ok,
                   okLive, result, inner>>

\* variant of filter_map_next: the collection inserts each failure at the
\* front
filter_map_next_front ==
    /\ pc = "filter_map"
    /\ LET i == next(iter) IN
       IF i = None
       THEN /\ ends' = ends + 1
            /\ result' = Some(Err(errs))
            /\ pc' = "wrap"
            /\ UNCHANGED <<iter, pulled, errs>>
       ELSE /\ iter' = Tail(iter)
            /\ pulled' = Append(pulled, i[1])
            /\ ends' = ends
            /\ errs' = err(i[1]) \o errs
            /\ pc' = "filter_map"
            /\ UNCHANGED result
    /\ UNCHANGED <<harness, rets, call, first_err, ok, okLive, inner>>

\* variant of filter_map_next: the closure is |r| Some(r.unwrap_err()),
\* which panics on a success
filter_map_next_unwrap ==
    /\ pc = "filter_map"
    /\ LET i == next(iter) IN
       IF i = None
       THEN /\ ends' = ends + 1
            /\ result' = Some(Err(errs))
            /\ pc' = "wrap"
            /\ UNCHANGED <<iter, pulled, errs>>
       ELSE /\ iter' = Tail(iter)
            /\ pulled' = Append(pulled, i[1])
            /\ ends' = ends
            /\ UNCHANGED result
            /\ IF i[1].tag = "Err"
               THEN /\ errs' = Append(errs, i[1].val)
                    /\ pc' = "filter_map"
               ELSE /\ pc' = "panic"
                    /\ UNCHANGED errs
    /\ UNCHANGED <<harness, rets, call, first_err, ok, okLive, inner>>

\* one poll of the source by iter.filter_map(|r| r.err()) driven by collect()
filter_map_next ==
    /\ pc = "filter_map"
    /\ LET i == next(iter) IN
       IF i = None
       THEN /\ ends' = ends + 1
            /\ result' = Some(Err(errs))
            /\ pc' = "wrap"
            /\ UNCHANGED <<iter, pulled, errs>>
       ELSE /\ iter' = Tail(iter)
            /\ pulled' = Append(pulled, i[1])
            /\ ends' = ends
            /\ errs' = errs \o err(i[1])
            /\ pc' = "filter_map"
            /\ UNCHANGED result
    /\ UNCHANGED <<harness, rets, call, first_err, ok, okLive, inner>>

\* Gatherr(..) is returned to whoever called from_iter
from_iter_return ==
    /\ pc = "wrap"
    /\ IF call = "from_iter"
       THEN /\ rets' = [rets EXCEPT ![call] = Some(Gatherr(result[1]))]
            /\ pc' = "idle"
            /\ UNCHANGED inner
       ELSE /\ inner' = Some(Gatherr(result[1]))
            /\ pc' = "returned"
            /\ UNCHANGED rets
    /\ UNCHANGED <<harness, call, iter, pulled, ends, first_err, ok, okLive,
                   errs, result>>

\* IterExt::gatherr: let Gatherr(result) = ..; result
IterExt_gatherr_result ==
    /\ pc = "returned"
    /\ call = "IterExt_gatherr"
    /\ rets' = [rets EXCEPT ![call] = Some(inner[1][1])]
    /\ pc' = "idle"
    /\ UNCHANGED <<harness, call, iter, pulled, ends, first_err, ok, okLive,
                   errs, result, inner>>

\* variant of gatherr_result: the function collects as Result's own
\* FromIterator does, keeping only the first failure
gatherr_result_first ==
    /\ pc = "returned"
    /\ call = "gatherr"
    /\ rets' = [rets EXCEPT ![call] =
                  Some(IF inner[1][1].tag = "Err"
                       THEN Err(<<Head(inner[1][1].val)>>)
                       ELSE inner[1][1])]
    /\ pc' = "idle"
    /\ UNCHANGED <<harness, call, iter, pulled, ends, first_err, ok, okLive,
                   errs, result, inner>>

\* gatherr: let Gatherr(result) = ..; result
gatherr_result ==
    /\ pc = "returned"
    /\ call = "gatherr"
    /\ rets' = [rets EXCEPT ![call] = Some(inner[1][1])]
    /\ pc' = "idle"
    /\ UNCHANGED <<harness, call, iter, pulled, ends, first_err, ok, okLive,
                   errs, result, inner>>

\* what the caller of entry point e observes as the aggregate result
Observed(e) == IF e = "from_iter" THEN rets[e][1][1] ELSE rets[e][1]

\* the failure collection of a SomeFailures result, each wrapped back as Err,
\* is handed to the entry points again
Reaggregate ==
    /\ pc = "idle"
    /\ round = 1
    /\ \A e \in Entries : rets[e] # None
    /\ Observed("gatherr").tag = "Err"
    /\ round' = 2
    /\ prev' = Observed("gatherr").val
    /\ arg' = [k \in 1..Len(Observed("gatherr").val) |-> Err(Observed("gatherr").val[k])]
    /\ rets' = [e \in Entries |-> None]
    /\ UNCHANGED <<input, call, pc, iter, pulled, ends, first_err, ok, okLive,
                   errs, result, inner>>

Step ==
    \/ IterExt_gatherr_collect
    \/ gatherr_collect
    \/ from_iter_begin
    \/ scan_next
    \/ if_first_err
    \/ else_ok
    \/ chain_once
    \/ filter_map_next
    \/ from_iter_return
    \/ IterExt_gatherr_result
    \/ gatherr_result

Next ==
    \/ \E e \in Entries : Start(e)
    \/ Step
    \/ Reaggregate

Spec == Init /\ [][Next]_vars

\* the code is straight-line and single-threaded: a call that can take a
\* step takes it
FairSpec == Spec /\ WF_vars(Next)

\* ---- vocabulary of the properties ----
IsFailure(r) == r.tag = "Err"
HasFailure(s) == \E k \in 1..Len(s) : IsFailure(s[k])
Vals(s) == [k \in 1..Len(s) |-> s[k].val]
FailuresOf(s) == Vals(SelectSeq(s, IsFailure))
FirstFailure(s) == CHOOSE k \in 1..Len(s) : IsFailure(s[k]) /\ \A j \in 1..(k - 1) : ~IsFailure(s[j])
Count(s, x) == Cardinality({k \in 1..Len(s) : s[k] = x})
InCall == pc # "idle"
JustReturned == pc = "idle" /\ rets[call] # None
Returned(e) == rets[e] # None
\* the returned collection, each value tagged with the variant it came back in
Tagged(r) == [k \in 1..Len(r.val) |-> [tag |-> r.tag, val |-> r.val[k]]]

\* C1: when the input has a failure, the returned Err collection is exactly
\* the ordered subsequence of the input's failure values
C1_FailuresInOrder ==
    \A e \in Entries : Returned(e) /\ HasFailure(arg) =>
        /\ Observed(e).tag = "Err"
        /\ Observed(e).val = FailuresOf(arg)

C1_Witness ==
    /\ Returned("from_iter")
    /\ Len(arg) = 4
    /\ ~IsFailure(arg[1]) /\ IsFailure(arg[2]) /\ ~IsFailure(arg[3]) /\ IsFailure(arg[4])
    /\ arg[2].val # arg[4].val

\* C2: the result is Err iff the input has a failure, otherwise Ok; an Err
\* collection is never empty
C2_VariantChoice ==
    \A e \in Entries : Returned(e) =>
        /\ Observed(e).tag \in {"Ok", "Err"}
        /\ (Observed(e).tag = "Err") <=> HasFailure(arg)
        /\ (Observed(e).tag = "Ok") <=> ~HasFailure(arg)
        /\ Observed(e).tag = "Err" => Len(Observed(e).val) >= 1

C2_Witness ==
    /\ Returned("IterExt_gatherr")
    /\ Observed("IterExt_gatherr").tag = "Err"
    /\ Len(arg) >= 2
    /\ ~IsFailure(arg[1])
    /\ IsFailure(arg[Len(arg)])

\* C3: a failure-free input comes back as Ok holding every value in input
\* order (same length as the input); the empty input gives Ok of empty
C3_AllSuccesses ==
    \A e \in Entries : Returned(e) /\ ~HasFailure(arg) =>
        /\ Observed(e) = Ok(Vals(arg))
        /\ Len(Observed(e).val) = Len(arg)
        /\ arg = <<>> => Observed(e) = Ok(<<>>)

C3_Witness ==
    /\ Returned("gatherr")
    /\ ~HasFailure(arg)
    /\ Len(arg) >= 3
    /\ arg[1] # arg[2]

\* C4 as stated: only the successes after the first failure are dropped, so
\* every failure and every success before the first failure (or of a
\* failure-free input) occurs in the result as often as in the input
C4_OnlyLaterSuccessesDropped ==
    \A e \in Entries : Returned(e) =>
        \A o \in Outcomes :
            Count(Tagged(Observed(e)), o) =
                IF IsFailure(o) \/ ~HasFailure(arg)
                THEN Count(arg, o)
                ELSE Count(SubSeq(arg, 1, FirstFailure(arg) - 1), o)

\* C4 amended: every failure, and every success of a failure-free input,
\* occurs in the result exactly as often as in the input; every success of
\* an input that has a failure is dropped
C4_NothingLostButSuccessesOfFailedInput ==
    \A e \in Entries : Returned(e) =>
        \A o \in Outcomes :
            Count(Tagged(Observed(e)), o) =
                IF IsFailure(o) \/ ~HasFailure(arg)
                THEN Count(arg, o)
                ELSE 0

C4_Witness ==
    /\ Returned("from_iter")
    /\ Len(arg) >= 3
    /\ ~IsFailure(arg[1])
    /\ IsFailure(arg[2])
    /\ arg[3] = arg[2]

\* C5: the three entry points return the same aggregate result for the
\* same input
C5_EntryPointsAgree ==
    \A e1, e2 \in Entries : Returned(e1) /\ Returned(e2) =>
        Observed(e1) = Observed(e2)

C5_Witness ==
    /\ \A e \in Entries : Returned(e)
    /\ Len(arg) >= 3
    /\ HasFailure(arg)
    /\ ~IsFailure(arg[1])
    /\ FailuresOf(arg) # <<arg[FirstFailure(arg)].val>>

\* C6: aggregating the failures of an Err result, each wrapped back as Err,
\* gives the same Err collection again
C6_Reaggregation ==
    \A e \in Entries : round = 2 /\ Returned(e) =>
        Observed(e) = Err(prev)

C6_Witness ==
    /\ round = 2
    /\ Returned("from_iter")
    /\ Len(prev) >= 2
    /\ prev[1] # prev[2]
    /\ Len(input) > Len(prev)

\* C7: a call never gets stuck before it has returned, never is at a
\* position the code does not have, and always eventually returns one result
C7_Totality ==
    /\ [](pc \in {"idle", "entry", "from_iter", "scan", "if", "once",
                  "filter_map", "wrap", "returned"})
    /\ [](InCall => ENABLED Step)
    /\ [](pc \in {"wrap", "returned"} => Len(result) = 1)
    /\ (InCall ~> JustReturned)

C7_Witness ==
    /\ JustReturned
    /\ call = "gatherr"
    /\ Len(arg) = MaxLen
    /\ HasFailure(arg)
    /\ ~IsFailure(arg[MaxLen])

\* C8: the source yields each element once, in input order, across the
\* hand-off from the scan to the filter_map, and the whole input has been
\* pulled when the result exists
C8_SinglePass ==
    InCall \/ JustReturned =>
        /\ Len(pulled) <= Len(arg)
        /\ pulled = SubSeq(arg, 1, Len(pulled))
        /\ pulled \o iter = arg
        /\ pc \in {"if", "once"} /\ first_err # None =>
               /\ Len(pulled) = FirstFailure(arg)
               /\ first_err = Some(arg[FirstFailure(arg)].val)
        /\ pc \in {"wrap", "returned", "idle"} => pulled = arg

C8_Witness ==
    /\ pc = "filter_map"
    /\ Len(arg) >= 3
    /\ Len(pulled) = FirstFailure(arg) + 1
    /\ FirstFailure(arg) >= 2

\* C9: once the first failure is recorded the success collection is dropped
\* before the source is polled again, no success is appended to either
\* buffer afterwards, and the two buffers are never both non-empty
C9_Discard ==
    /\ [](ok = <<>> \/ errs = <<>>)
    /\ [](InCall /\ first_err # None /\ okLive =>
            /\ pc = "if"
            /\ ends = 0
            /\ errs = <<>>
            /\ Len(pulled) = FirstFailure(arg))
    /\ [][InCall /\ first_err # None =>
            /\ ok' = ok \/ ok' = <<>>
            /\ \/ errs' = errs
               \/ pc = "once" /\ errs' = Append(errs, first_err[1])
               \/ /\ Len(pulled') = Len(pulled) + 1
                  /\ IsFailure(pulled'[Len(pulled')])
                  /\ errs' = Append(errs, pulled'[Len(pulled')].val)]_vars

C9_Witness ==
    /\ pc = "filter_map"
    /\ Len(errs) >= 2
    /\ ~IsFailure(arg[1])
    /\ \E k \in 1..Len(pulled) : k > FirstFailure(arg) /\ ~IsFailure(pulled[k])

\* C10: the source answers None exactly once per call and is not polled
\* after that: n + 1 polls for n elements, with or without a failure
C10_OneEndOfSequence ==
    InCall \/ JustReturned =>
        /\ ends <= 1
        /\ ends = 1 => iter = <<>> /\ pulled = arg
        /\ pc \in {"if", "once", "filter_map"} /\ first_err # None => ends = 0
        /\ pc \in {"wrap", "returned", "idle"} =>
               ends = 1 /\ Len(pulled) + ends = Len(arg) + 1

C10_Witness ==
    /\ pc = "wrap"
    /\ ends = 1
    /\ ~HasFailure(arg)
    /\ Len(arg) >= 2

====
